---- MODULE Spec2Model ----
(***************************************************************************)
(* Model of the RingCentral webhook receiver                               *)
(* (ringcentral_integration/api/ringcentral_webhook_handler.py and         *)
(* ringcentral_integration/ringcentral_client.py).                         *)
(*                                                                         *)
(* A text value (a Python str) is a sequence of one-character strings, so  *)
(* that digit filtering, splitting, stripping and SQL LIKE are computed    *)
(* on the characters.  Python's None is NoneNum where a text is expected   *)
(* and None where a document name is expected.                             *)
(***************************************************************************)
EXTENDS Integers, Sequences, FiniteSets, TLC

VARIABLES
    settings,        \* the "RingCentral Settings" document
    request,         \* frappe.request of the delivery being handled
    pc,              \* position of the handler in its linear flow
    frame,           \* the handler's local variables
    trace,           \* external calls completed by the handler in this delivery
    raised,          \* the step whose call raised in this delivery, or None
    response,        \* the (body, status) pair returned
    txn,             \* Communication documents inserted and not yet committed
    communications,  \* committed Communication documents
    error_log,       \* titles passed to frappe.log_error
    at_entry,        \* communications and error_log as they were when the delivery arrived
    delivered,       \* deliveries received so far
    logged           \* deliveries answered ("Call logged successfully", 200)

vars == <<settings, request, pc, frame, trace, raised, response, txn,
          communications, error_log, at_entry, delivered, logged>>

\* Number of webhook deliveries explored in one behaviour.
MaxDeliveries == 2

\* Number of deliveries explored when the payload is drawn from AllParties.
WideDeliveries == 1

None == "None"
NoneNum == <<"None">>

----------------------------------------------------------------------------
(* Text helpers *)

\* str.isdigit on one character
IsDigit(c) == c \in {"0", "1", "2", "3", "4", "5", "6", "7", "8", "9"}

\* truthiness of an optional text: None and "" are falsy
Truthy(s) == s # NoneNum /\ s # <<>>

\* a or b
Or(a, b) == IF Truthy(a) THEN a ELSE b

IsSpace(c) == c \in {" "}

RECURSIVE LStrip(_)
LStrip(s) == IF s # <<>> /\ IsSpace(Head(s)) THEN LStrip(Tail(s)) ELSE s

RECURSIVE RStrip(_)
RStrip(s) ==
    IF s # <<>> /\ IsSpace(s[Len(s)]) THEN RStrip(SubSeq(s, 1, Len(s) - 1)) ELSE s

\* str.strip()
Strip(s) == LStrip(RStrip(s))

\* str.split(','): the pieces between commas, empty pieces included
RECURSIVE SplitComma(_, _)
SplitComma(s, cur) ==
    IF s = <<>> THEN <<cur>>
    ELSE IF Head(s) = "," THEN <<cur>> \o SplitComma(Tail(s), <<>>)
    ELSE SplitComma(Tail(s), Append(cur, Head(s)))

\* [f(x) for x in xs if f(x)] with f = strip
RECURSIVE StripNonEmpty(_)
StripNonEmpty(xs) ==
    IF xs = <<>> THEN <<>>
    ELSE IF Strip(Head(xs)) # <<>>
         THEN <<Strip(Head(xs))>> \o StripNonEmpty(Tail(xs))
         ELSE StripNonEmpty(Tail(xs))

\* x in list
InList(x, xs) == \E i \in DOMAIN xs : xs[i] = x

\* column LIKE '%needle%' (a NULL column matches nothing)
Like(column, needle) ==
    /\ column # NoneNum
    /\ \E i \in 0..(Len(column) - Len(needle)) :
          SubSeq(column, i + 1, i + Len(needle)) = needle

----------------------------------------------------------------------------
(* The data the handler reads: settings, Contact, Dynamic Link, Customer *)

Ext101          == <<"1", "0", "1">>
OrgMain         == <<"5", "5", "5", "0", "1", "0", "0">>
CustDigits      == <<"5", "5", "5", "1", "2", "3", "4", "5", "6", "7">>
CustFormatted   == <<"(", "5", "5", "5", ")", " ", "1", "2", "3", "-", "4", "5", "6", "7">>
CustPlusOne     == <<"+", "1", " ", "(", "5", "5", "5", ")", " ", "1", "2", "3", "-", "4", "5", "6", "7">>
CustLocal       == <<"1", "2", "3", "4", "5", "6", "7">>
NoLinkDigits    == <<"5", "5", "5", "2", "2", "2", "3", "3", "3", "3">>
FallbackDigits  == <<"5", "5", "5", "4", "4", "4", "5", "5", "5", "5">>
DashedStored    == <<"5", "5", "5", "-", "9", "8", "7", "-", "6", "5", "4", "3">>
DashedQuery     == <<"5", "5", "5", "9", "8", "7", "6", "5", "4", "3">>

\* organization_numbers as typed into the settings form: "101, ,5550100 "
OrgNumbersText  == <<"1", "0", "1", ",", " ", ",", "5", "5", "5", "0", "1", "0", "0", " ">>

\* The settings documents a behaviour may start with.
SettingsDocs ==
    { [organization_numbers |-> OrgNumbersText, environment |-> "sandbox"],
      [organization_numbers |-> NoneNum,        environment |-> "production"] }

\* tabContact rows, in the order the data store returns them
ContactTable ==
    << [name |-> "CON-0001", primary_contact_no |-> CustDigits],
       [name |-> "CON-0002", primary_contact_no |-> DashedStored],
       [name |-> "CON-0003", primary_contact_no |-> NoLinkDigits],
       [name |-> "CON-0004", primary_contact_no |-> NoneNum] >>

\* tabDynamic Link rows
DynamicLinkTable ==
    << [parenttype |-> "Contact", parent |-> "CON-0001",
        link_doctype |-> "Customer", link_name |-> "CUST-A"],
       [parenttype |-> "Contact", parent |-> "CON-0002",
        link_doctype |-> "Customer", link_name |-> "CUST-D"],
       [parenttype |-> "Contact", parent |-> "CON-0003",
        link_doctype |-> "Supplier", link_name |-> "SUPP-X"] >>

\* tabCustomer rows
CustomerTable ==
    << [name |-> "CUST-A", phone_no |-> NoneNum],
       [name |-> "CUST-B", phone_no |-> NoLinkDigits],
       [name |-> "CUST-C", phone_no |-> FallbackDigits],
       [name |-> "CUST-D", phone_no |-> NoneNum] >>

Min(S) == CHOOSE x \in S : \A y \in S : x <= y

----------------------------------------------------------------------------
(* find_customer_by_phone *)

\* "".join(filter(str.isdigit, phone_number or ""))
CleanPhone(phone_number) == SelectSeq(Or(phone_number, <<>>), IsDigit)

\* frappe.db.get_value("Contact", {"primary_contact_no": ("like", "%..%")}, "name")
ContactByPhone(cleaned_phone) ==
    LET hits == {i \in DOMAIN ContactTable :
                    Like(ContactTable[i].primary_contact_no, cleaned_phone)}
    IN  IF hits = {} THEN None ELSE ContactTable[Min(hits)].name

\* frappe.db.get_value("Dynamic Link", {link_doctype: "Customer",
\*                     parenttype: "Contact", parent: contact_name}, "link_name")
CustomerLinkOf(contact_name) ==
    LET hits == {i \in DOMAIN DynamicLinkTable :
                    /\ DynamicLinkTable[i].link_doctype = "Customer"
                    /\ DynamicLinkTable[i].parenttype = "Contact"
                    /\ DynamicLinkTable[i].parent = contact_name}
    IN  IF hits = {} THEN None ELSE DynamicLinkTable[Min(hits)].link_name

\* frappe.db.get_value("Customer", {"phone_no": ("like", "%..%")}, "name")
CustomerByPhone(cleaned_phone) ==
    LET hits == {i \in DOMAIN CustomerTable :
                    Like(CustomerTable[i].phone_no, cleaned_phone)}
    IN  IF hits = {} THEN None ELSE CustomerTable[Min(hits)].name

\* find_customer_by_phone falling back to the Customer field when the matched
\* contact has no customer link
find_customer_by_phone_fallthrough(phone_number) ==
    LET cleaned_phone == CleanPhone(phone_number)
        contact_name  == ContactByPhone(cleaned_phone)
    IN  IF cleaned_phone = <<>>
        THEN [result |-> None, queries |-> <<>>]
        ELSE IF contact_name # None /\ CustomerLinkOf(contact_name) # None
        THEN [result  |-> CustomerLinkOf(contact_name),
              queries |-> <<"Contact", "Dynamic Link">>]
        ELSE [result  |-> CustomerByPhone(cleaned_phone),
              queries |-> <<"Contact", "Customer">>]

\* The value returned and the doctypes queried, in order.
find_customer_by_phone(phone_number) ==
    LET cleaned_phone == CleanPhone(phone_number)
        contact_name  == ContactByPhone(cleaned_phone)
    IN  IF cleaned_phone = <<>>
        THEN [result |-> None, queries |-> <<>>]
        ELSE IF contact_name # None
        THEN [result  |-> CustomerLinkOf(contact_name),
              queries |-> <<"Contact", "Dynamic Link">>]
        ELSE [result  |-> CustomerByPhone(cleaned_phone),
              queries |-> <<"Contact", "Customer">>]

----------------------------------------------------------------------------
(* Direction and customer side, handle_call_webhook lines 28-47 *)

\* d.get("phoneNumber") or d.get("extensionNumber")
NumberOf(party) == Or(party.phoneNumber, party.extensionNumber)

\* [n.strip() for n in (organization_numbers or "").split(',') if n.strip()]
OrgNumbers(doc) ==
    StripNonEmpty(SplitComma(Or(doc.organization_numbers, <<>>), <<>>))

\* Classify testing the "from" number instead of the "to" number
ClassifyByFrom(from_number, to_number, org_numbers) ==
    IF InList(from_number, org_numbers)
    THEN [customer_phone |-> to_number,   communication_type |-> "Outgoing Call"]
    ELSE [customer_phone |-> from_number, communication_type |-> "Incoming Call"]

\* Classify with the two assignments of customer_phone exchanged
ClassifySameSide(from_number, to_number, org_numbers) ==
    IF InList(to_number, org_numbers)
    THEN [customer_phone |-> to_number,   communication_type |-> "Incoming Call"]
    ELSE [customer_phone |-> from_number, communication_type |-> "Outgoing Call"]

\* the if/else on "to_number in org_numbers"
Classify(from_number, to_number, org_numbers) ==
    IF InList(to_number, org_numbers)
    THEN [customer_phone |-> from_number, communication_type |-> "Incoming Call"]
    ELSE [customer_phone |-> to_number,   communication_type |-> "Outgoing Call"]

----------------------------------------------------------------------------
(* Transcript provider: get_transcript and the client it connects to *)

\* Duration reported by the client's call-log record.
CallLogDuration == 120

\* connect_to_ringcentral: the URL segment of the environment
EnvSegment(env) == IF env = "sandbox" THEN "sandbox" ELSE "ringcentral"

\* The call-log records a client may hand back: the one the stand-in client
\* builds, and one of a call that was not transcribed (no transcriptUri).
TranscriptUri(env, call_id) ==
    <<"https://api.", EnvSegment(env),
      ".ringcentral.com/v1.0/account/~/call-log/", call_id, "/transcript-content">>

get_call_log_record(env, call_id, transcribed) ==
    [duration      |-> CallLogDuration,
     transcriptUri |-> IF transcribed THEN TranscriptUri(env, call_id) ELSE NoneNum]

\* download_file(uri).text_content: the heading embeds the tail of the uri
text_content(uri) ==
    <<"**RingCentral Call Transcript (ID: ", uri[Len(uri) - 1], uri[Len(uri)], ")**">>

Placeholder == <<"Transcript not available (No URI found).">>

\* get_transcript returning an empty text when the uri is missing
get_transcript_empty(call_log_details) ==
    LET transcript_uri == call_log_details.transcriptUri
    IN  IF ~Truthy(transcript_uri)
        THEN [text |-> <<>>, logs |-> <<"RingCentral Transcript Error">>,
              calls |-> <<"get_call_log_record">>]
        ELSE [text |-> text_content(transcript_uri), logs |-> <<>>,
              calls |-> <<"get_call_log_record", "download_file">>]

\* get_transcript from the call-log record on: the text returned, whether the
\* omission is logged, and whether a download was made
get_transcript(call_log_details) ==
    LET transcript_uri == call_log_details.transcriptUri
    IN  IF ~Truthy(transcript_uri)
        THEN [text |-> Placeholder, logs |-> <<"RingCentral Transcript Error">>,
              calls |-> <<"get_call_log_record">>]
        ELSE [text |-> text_content(transcript_uri), logs |-> <<>>,
              calls |-> <<"get_call_log_record", "download_file">>]

----------------------------------------------------------------------------
(* Record writer: create_call_communication *)

NewCommunication(customer, communication_type, from_num, to_num, duration, transcript, event_id) ==
    [subject              |-> <<communication_type, customer, from_num, to_num>>,
     communication_type   |-> "Phone",
     content              |-> transcript,
     status               |-> "Closed",
     reference_doctype    |-> "Customer",
     reference_name       |-> customer,
     custom_ringcentral_id |-> event_id,
     custom_call_duration |-> duration]

----------------------------------------------------------------------------
(* Webhook deliveries *)

\* the "from" / "to" objects of a payload body
Party(phone, ext) == [phoneNumber |-> phone, extensionNumber |-> ext]

OrgExtParty   == Party(<<>>, Ext101)
CustParty     == Party(CustFormatted, NoneNum)
PlusOneParty  == Party(CustPlusOne, NoneNum)

FlowParties == {OrgExtParty, CustParty}

AllParties ==
    FlowParties \cup
    { PlusOneParty,
      Party(OrgMain, NoneNum),
      Party(NoneNum, NoneNum),
      Party(CustLocal, NoneNum),
      Party(NoLinkDigits, NoneNum),
      Party(FallbackDigits, Ext101),
      Party(DashedQuery, NoneNum) }

Uuids == {"uuid-1", "uuid-2"}
Durations == {95}

NoParty == Party(NoneNum, NoneNum)

\* frappe.request: no request object, a validation GET, a POST whose body is
\* not the JSON object expected, or a POST carrying a call payload
NoData == [wellformed |-> FALSE, uuid |-> None, from |-> NoParty, to |-> NoParty, duration |-> 0]

OtherRequests ==
    { [method |-> "NONE", data |-> NoData],
      [method |-> "GET",  data |-> NoData],
      [method |-> "POST", data |-> NoData] }

Posts(parties, uuids) ==
    { [method |-> "POST",
       data   |-> [wellformed |-> TRUE, uuid |-> u, from |-> f, to |-> t, duration |-> d]] :
      u \in uuids, f \in parties, t \in parties, d \in Durations }

FlowRequests == OtherRequests \cup Posts(FlowParties, Uuids)
WideRequests == OtherRequests \cup Posts(AllParties, {"uuid-1"})

----------------------------------------------------------------------------
(* The handler *)

NoResponse == [body |-> "", status |-> 0]
Ok200      == [body |-> "OK", status |-> 200]
Logged200  == [body |-> "Call logged successfully", status |-> 200]
Failed404  == [body |-> "Customer lookup failed", status |-> 404]
Error500   == [body |-> "Internal Server Error", status |-> 500]

EmptyFrame ==
    [event_id |-> None, from_number |-> NoneNum, to_number |-> NoneNum,
     call_duration |-> 0, org_numbers |-> <<>>, customer_phone |-> NoneNum,
     communication_type |-> None, customer_name |-> None,
     transcript_uri |-> NoneNum, call_transcript |-> <<>>]

Init ==
    /\ settings \in SettingsDocs
    /\ request = [method |-> "NONE", data |-> NoData]
    /\ pc = "idle"
    /\ frame = EmptyFrame
    /\ trace = <<>>
    /\ raised = None
    /\ response = NoResponse
    /\ txn = <<>>
    /\ communications = <<>>
    /\ error_log = <<>>
    /\ at_entry = [communications |-> <<>>, error_log |-> <<>>]
    /\ delivered = 0
    /\ logged = 0

\* The framework hands a request to handle_call_webhook.
Receive(pool, limit) ==
    /\ pc = "idle"
    /\ delivered < limit
    /\ \E req \in pool : request' = req
    /\ pc' = "entry"
    /\ frame' = EmptyFrame
    /\ trace' = <<>>
    /\ raised' = None
    /\ response' = NoResponse
    /\ at_entry' = [communications |-> communications, error_log |-> error_log]
    /\ delivered' = delivered + 1
    /\ UNCHANGED <<settings, txn, communications, error_log, logged>>

\* A call inside the try block raises: control goes to the except clause.
Raise(step) ==
    /\ pc' = "except"
    /\ raised' = step
    /\ UNCHANGED <<settings, request, frame, trace, response, txn,
                   communications, error_log, at_entry, delivered, logged>>

\* HandleNonPost logging the unexpected request before answering
HandleNonPostLogging ==
    /\ pc = "entry"
    /\ ~(request.method # "NONE" /\ request.method = "POST")
    /\ error_log' = Append(error_log, "RingCentral Webhook Error")
    /\ response' = Ok200
    /\ pc' = "done"
    /\ UNCHANGED <<settings, request, frame, trace, raised, txn,
                   communications, at_entry, delivered, logged>>

\* if frappe.request and frappe.request.method == 'POST': ... else return "OK", 200
HandleNonPost ==
    /\ pc = "entry"
    /\ ~(request.method # "NONE" /\ request.method = "POST")
    /\ response' = Ok200
    /\ pc' = "done"
    /\ UNCHANGED <<settings, request, frame, trace, raised, txn,
                   communications, error_log, at_entry, delivered, logged>>

\* json.loads and the extraction of uuid, from, to and duration
ParseRequest ==
    /\ pc = "entry"
    /\ request.method # "NONE" /\ request.method = "POST"
    /\ IF ~request.data.wellformed
       THEN Raise("json.loads")
       ELSE /\ frame' = [frame EXCEPT
                           !.event_id      = request.data.uuid,
                           !.from_number   = NumberOf(request.data.from),
                           !.to_number     = NumberOf(request.data.to),
                           !.call_duration = request.data.duration]
            /\ trace' = Append(trace, "json.loads")
            /\ pc' = "settings"
            /\ UNCHANGED <<settings, request, raised, response, txn,
                           communications, error_log, at_entry, delivered, logged>>

\* the settings read, the organization list and the direction branch
ReadSettings ==
    /\ pc = "settings"
    /\ \/ Raise("get_cached_doc")
       \/ LET org_numbers == OrgNumbers(settings)
              c == Classify(frame.from_number, frame.to_number, org_numbers)
          IN  /\ frame' = [frame EXCEPT
                             !.org_numbers        = org_numbers,
                             !.customer_phone     = c.customer_phone,
                             !.communication_type = c.communication_type]
              /\ trace' = Append(trace, "get_cached_doc")
              /\ pc' = "lookup"
              /\ UNCHANGED <<settings, request, raised, response, txn,
                             communications, error_log, at_entry, delivered, logged>>

\* LookupCustomer logging the failed lookup without returning
LookupCustomerNoExit ==
    /\ pc = "lookup"
    /\ \/ Raise("find_customer_by_phone")
       \/ LET r == find_customer_by_phone(frame.customer_phone)
          IN  /\ frame' = [frame EXCEPT !.customer_name = r.result]
              /\ trace' = trace \o <<"find_customer_by_phone">> \o r.queries
              /\ IF r.result = None
                 THEN error_log' = Append(error_log, "RingCentral Webhook Failed")
                 ELSE UNCHANGED error_log
              /\ pc' = "transcript"
              /\ UNCHANGED <<settings, request, raised, response, txn,
                             communications, at_entry, delivered, logged>>

\* customer_name = find_customer_by_phone(customer_phone) and the 404 exit
LookupCustomer ==
    /\ pc = "lookup"
    /\ \/ Raise("find_customer_by_phone")
       \/ LET r == find_customer_by_phone(frame.customer_phone)
          IN  /\ frame' = [frame EXCEPT !.customer_name = r.result]
              /\ trace' = trace \o <<"find_customer_by_phone">> \o r.queries
              /\ IF r.result = None
                 THEN /\ error_log' = Append(error_log, "RingCentral Webhook Failed")
                      /\ response' = Failed404
                      /\ pc' = "done"
                 ELSE /\ pc' = "transcript"
                      /\ UNCHANGED <<error_log, response>>
              /\ UNCHANGED <<settings, request, raised, txn, communications,
                             at_entry, delivered, logged>>

\* call_transcript = get_transcript(event_id)
FetchTranscript ==
    /\ pc = "transcript"
    /\ \/ Raise("get_transcript")
       \/ \E transcribed \in BOOLEAN :
            LET call_log_details ==
                    get_call_log_record(settings.environment, frame.event_id, transcribed)
                t == get_transcript(call_log_details)
            IN  /\ frame' = [frame EXCEPT
                               !.transcript_uri  = call_log_details.transcriptUri,
                               !.call_transcript = t.text]
                /\ trace' = trace \o <<"get_transcript">> \o t.calls
                /\ error_log' = error_log \o t.logs
                /\ pc' = "insert"
                /\ UNCHANGED <<settings, request, raised, response, txn,
                               communications, at_entry, delivered, logged>>

\* create_call_communication up to communication.insert(ignore_permissions=True)
InsertCommunication ==
    /\ pc = "insert"
    /\ \/ Raise("insert")
       \/ /\ txn' = Append(txn, NewCommunication(frame.customer_name,
                               frame.communication_type, frame.from_number,
                               frame.to_number, frame.call_duration,
                               frame.call_transcript, frame.event_id))
          /\ trace' = Append(trace, "insert")
          /\ pc' = "msgprint"
          /\ UNCHANGED <<settings, request, frame, raised, response,
                         communications, error_log, at_entry, delivered, logged>>

\* frappe.msgprint(...) and the return of create_call_communication
Msgprint ==
    /\ pc = "msgprint"
    /\ \/ Raise("msgprint")
       \/ /\ trace' = Append(trace, "msgprint")
          /\ pc' = "commit"
          /\ UNCHANGED <<settings, request, frame, raised, response, txn,
                         communications, error_log, at_entry, delivered, logged>>

\* frappe.db.commit() and return "Call logged successfully", 200
Commit ==
    /\ pc = "commit"
    /\ \/ Raise("commit")
       \/ /\ communications' = communications \o txn
          /\ txn' = <<>>
          /\ trace' = Append(trace, "commit")
          /\ response' = Logged200
          /\ logged' = logged + 1
          /\ pc' = "done"
          /\ UNCHANGED <<settings, request, frame, raised, error_log,
                         at_entry, delivered>>

\* HandleException committing so that the error log entry is kept
HandleExceptionCommitting ==
    /\ pc = "except"
    /\ error_log' = Append(error_log, "RingCentral Webhook Error")
    /\ communications' = communications \o txn
    /\ txn' = <<>>
    /\ trace' = Append(trace, "commit")
    /\ response' = Error500
    /\ pc' = "done"
    /\ UNCHANGED <<settings, request, frame, raised, at_entry, delivered, logged>>

\* except Exception: log the trace, return "Internal Server Error", 500
HandleException ==
    /\ pc = "except"
    /\ error_log' = Append(error_log, "RingCentral Webhook Error")
    /\ response' = Error500
    /\ pc' = "done"
    /\ UNCHANGED <<settings, request, frame, trace, raised, txn,
                   communications, at_entry, delivered, logged>>

\* The handler has returned and never rolls back: what it left in the open
\* transaction is committed with the request ...
EndRequestCommit ==
    /\ pc = "done"
    /\ communications' = communications \o txn
    /\ txn' = <<>>
    /\ pc' = "idle"
    /\ UNCHANGED <<settings, request, frame, trace, raised, response,
                   error_log, at_entry, delivered, logged>>

\* ... or discarded with the connection.
EndRequestRollback ==
    /\ pc = "done"
    /\ txn' = <<>>
    /\ pc' = "idle"
    /\ UNCHANGED <<settings, request, frame, trace, raised, response,
                   communications, error_log, at_entry, delivered, logged>>

Handle ==
    \/ HandleNonPost
    \/ ParseRequest
    \/ ReadSettings
    \/ LookupCustomer
    \/ FetchTranscript
    \/ InsertCommunication
    \/ Msgprint
    \/ Commit
    \/ HandleException
    \/ EndRequestCommit
    \/ EndRequestRollback

ReceiveFlow == Receive(FlowRequests, MaxDeliveries)
ReceiveWide == Receive(WideRequests, WideDeliveries)

Next == ReceiveFlow \/ Handle
NextWide == ReceiveWide \/ Handle

\* Deliveries drawn from FlowParties, several per behaviour.
Spec == Init /\ [][Next]_vars

\* Deliveries drawn from AllParties.
SpecWide == Init /\ [][NextWide]_vars

----------------------------------------------------------------------------
(* Vocabulary of the properties *)

\* the handler completed this call in the current delivery
Has(step) == \E i \in DOMAIN trace : trace[i] = step

Count(step) == Cardinality({i \in DOMAIN trace : trace[i] = step})

\* position of the first completion of a call
Pos(step) == Min({i \in DOMAIN trace : trace[i] = step})

\* the handler has returned from the current delivery
Returned == pc \in {"done", "idle"} /\ delivered > 0

\* the organization number set each settings document denotes
OrgSet ==
    IF settings.organization_numbers = OrgNumbersText THEN {Ext101, OrgMain} ELSE {}

\* the number a payload party carries: phoneNumber, else extensionNumber
PartyNumber(party) ==
    IF party.phoneNumber \notin {NoneNum, <<>>}
    THEN party.phoneNumber ELSE party.extensionNumber

\* the number a stored record was looked up by
LookupSide(rec) ==
    IF rec.subject[1] = "Incoming Call" THEN rec.subject[3] ELSE rec.subject[4]

\* the error titles logged during the current delivery
LoggedNow == SubSeq(error_log, Len(at_entry.error_log) + 1, Len(error_log))

\* the digits of a number, in order (none for an absent number)
RECURSIVE DigitsFrom(_, _)
DigitsFrom(s, k) ==
    IF k > Len(s) THEN <<>>
    ELSE IF s[k] \in {"0", "1", "2", "3", "4", "5", "6", "7", "8", "9"}
         THEN <<s[k]>> \o DigitsFrom(s, k + 1)
         ELSE DigitsFrom(s, k + 1)

DigitsOf(s) == IF s = NoneNum THEN <<>> ELSE DigitsFrom(s, 1)

\* text contains piece as a run of consecutive characters
Within(piece, text) ==
    \E a \in 1..(Len(text) - Len(piece) + 1) :
        \A k \in 1..Len(piece) : text[a + k - 1] = piece[k]

\* contacts whose primary number contains the digits
MatchingContacts(digits) ==
    {i \in DOMAIN ContactTable :
        /\ ContactTable[i].primary_contact_no # NoneNum
        /\ Within(digits, ContactTable[i].primary_contact_no)}

\* customers a contact is linked to
LinkedCustomers(contact) ==
    {DynamicLinkTable[i].link_name : i \in
        {j \in DOMAIN DynamicLinkTable :
            /\ DynamicLinkTable[j].parent = contact
            /\ DynamicLinkTable[j].parenttype = "Contact"
            /\ DynamicLinkTable[j].link_doctype = "Customer"}}

\* customers whose own phone field contains the digits
MatchingCustomers(digits) ==
    {CustomerTable[i].name : i \in
        {j \in DOMAIN CustomerTable :
            /\ CustomerTable[j].phone_no # NoneNum
            /\ Within(digits, CustomerTable[j].phone_no)}}

----------------------------------------------------------------------------
(* Properties *)

\* C1: when the lookup resolves no customer for the chosen customer phone, the
\* handler answers ("Customer lookup failed", 404) having fetched no transcript,
\* inserted nothing and committed nothing, and the communication records are
\* as they were; and every communication record references the customer that
\* the lookup resolves for the number the record was looked up by.
C1_NoCustomerNoRecord ==
    /\ (Has("find_customer_by_phone") /\ frame.customer_name = None)
       => /\ pc = "done" \/ pc = "idle"
          /\ response = Failed404
          /\ ~Has("get_transcript") /\ ~Has("insert") /\ ~Has("commit")
          /\ txn = <<>>
          /\ communications = at_entry.communications
    /\ \A i \in DOMAIN (communications \o txn) :
          LET rec == (communications \o txn)[i]
              contacts == MatchingContacts(DigitsOf(LookupSide(rec)))
          IN  /\ rec.reference_name # None
              /\ rec.reference_doctype = "Customer"
              /\ \/ \E c \in contacts :
                        rec.reference_name \in LinkedCustomers(ContactTable[c].name)
                 \/ /\ contacts = {}
                    /\ rec.reference_name \in MatchingCustomers(DigitsOf(LookupSide(rec)))

\* C1 witness: a call between two organization extensions, whose customer
\* phone nobody has, was answered 404 while an earlier delivery's record is in
\* the store.
C1_Witness ==
    /\ pc = "done"
    /\ response = Failed404
    /\ frame.customer_phone = Ext101
    /\ frame.communication_type = "Incoming Call"
    /\ Len(communications) = 1
    /\ logged = 1

\* C2: the direction is "Incoming Call" exactly when the "to" number
\* (phoneNumber, else extensionNumber) is in the organization number set, and
\* "Outgoing Call" otherwise, whatever the "from" number is.
C2_DirectionByToNumber ==
    Has("get_cached_doc") =>
        /\ frame.communication_type \in {"Incoming Call", "Outgoing Call"}
        /\ frame.communication_type = "Incoming Call"
              <=> PartyNumber(request.data.to) \in OrgSet
        /\ frame.to_number = PartyNumber(request.data.to)

\* C2 witness: an incoming call whose "to" has an empty phoneNumber and an
\* extension, with an organization number on the "from" side as well.
C2_Witness ==
    /\ pc = "lookup"
    /\ frame.communication_type = "Incoming Call"
    /\ request.data.to.phoneNumber = <<>>
    /\ frame.to_number = Ext101
    /\ frame.from_number = OrgMain

\* C3: a queried number and a stored number that denote the same phone and
\* differ only in formatting match; "+1 (555) 123-4567" resolves the customer
\* of the contact stored as "5551234567".
C3_FormattingInsensitive ==
    (Has("find_customer_by_phone") /\ DigitsOf(frame.customer_phone) # <<>>) =>
        /\ frame.customer_phone = CustPlusOne => frame.customer_name = "CUST-A"
        /\ \A i \in DOMAIN ContactTable :
              DigitsOf(ContactTable[i].primary_contact_no) = DigitsOf(frame.customer_phone)
                  => frame.customer_name \in LinkedCustomers(ContactTable[i].name)

\* C4: a request that is not a POST, or no request at all, is answered
\* ("OK", 200) with no call made, nothing inserted, committed or logged.
C4_NonPostNoEffect ==
    (Returned /\ request.method # "POST") =>
        /\ response = Ok200
        /\ trace = <<>>
        /\ raised = None
        /\ frame = EmptyFrame
        /\ txn = <<>>
        /\ communications = at_entry.communications
        /\ error_log = at_entry.error_log

\* C4 witness: no request object, with a record and an error entry already stored.
C4_Witness ==
    /\ pc = "done"
    /\ request.method = "NONE"
    /\ response = Ok200
    /\ Len(communications) = 1
    /\ logged = 1
    /\ Len(error_log) = 1

\* C5: when the call-log record carries no transcript URI, get_transcript logs
\* the omission, downloads nothing and returns the placeholder; every record
\* inserted for the delivery has the placeholder as content, and unless a
\* later call raises the delivery is answered ("Call logged successfully", 200)
\* with that record committed.
C5_PlaceholderWhenNoUri ==
    (Has("get_transcript") /\ frame.transcript_uri \in {NoneNum, <<>>}) =>
        /\ frame.call_transcript = Placeholder
        /\ frame.call_transcript # <<>>
        /\ ~Has("download_file")
        /\ \E i \in DOMAIN LoggedNow : LoggedNow[i] = "RingCentral Transcript Error"
        /\ \A i \in DOMAIN txn : txn[i].content = Placeholder
        /\ (pc = "done" /\ raised = None) =>
              /\ response = Logged200
              /\ Len(communications) = Len(at_entry.communications) + 1
              /\ communications[Len(communications)].content = Placeholder
              /\ communications[Len(communications)].reference_name = frame.customer_name

\* C5 witness: a delivery without transcript URI was logged successfully.
C5_Witness ==
    /\ pc = "done"
    /\ response = Logged200
    /\ frame.transcript_uri = NoneNum
    /\ communications[Len(communications)].content = Placeholder

\* C6: a delivery answered ("Internal Server Error", 500) has the trace logged
\* and leaves no communication record of its own persisted, at whichever step
\* the exception occurred.
C6_NoPartialRecord ==
    (Returned /\ response = Error500) =>
        /\ \E i \in DOMAIN LoggedNow : LoggedNow[i] = "RingCentral Webhook Error"
        /\ communications = at_entry.communications

\* C7 as stated: for every payload the customer phone is a number outside the
\* organization number set.
C7_CustomerPhoneOutsideOrg ==
    Has("get_cached_doc") => frame.customer_phone \notin OrgSet

\* C7 amended: when exactly one of "from"/"to" is an organization number the
\* customer phone is the other one; when neither is, it is the "to" number;
\* when both are, it is the "from" number.
C7_CustomerPhoneBySide ==
    Has("get_cached_doc") =>
        LET f == PartyNumber(request.data.from)
            t == PartyNumber(request.data.to)
        IN  /\ (f \in OrgSet /\ t \notin OrgSet) =>
                  frame.customer_phone = t /\ frame.customer_phone \notin OrgSet
            /\ (f \notin OrgSet /\ t \in OrgSet) =>
                  frame.customer_phone = f /\ frame.customer_phone \notin OrgSet
            /\ (f \notin OrgSet /\ t \notin OrgSet) => frame.customer_phone = t
            /\ (f \in OrgSet /\ t \in OrgSet) => frame.customer_phone = f

\* C7 witness: an outgoing call from an organization extension to a customer.
C7_Witness ==
    /\ pc = "lookup"
    /\ PartyNumber(request.data.from) = Ext101
    /\ PartyNumber(request.data.to) = CustFormatted
    /\ OrgSet # {}
    /\ frame.customer_phone = CustFormatted

\* C8: the lookup is contact-first.  With empty digits it returns none and
\* queries nothing; when a contact's primary number contains the digits it
\* returns the customer linked to the matched contact (none without a link)
\* and never queries Customer; only when no contact matches does it return
\* the customer whose own phone field contains the digits.
C8_ContactFirst ==
    Has("find_customer_by_phone") =>
        LET digits   == DigitsOf(frame.customer_phone)
            contacts == MatchingContacts(digits)
        IN  /\ digits = <<>> =>
                  /\ frame.customer_name = None
                  /\ ~Has("Contact") /\ ~Has("Dynamic Link") /\ ~Has("Customer")
            /\ (digits # <<>> /\ contacts # {}) =>
                  /\ ~Has("Customer")
                  /\ Has("Contact") /\ Has("Dynamic Link")
                  /\ \E c \in contacts :
                        IF LinkedCustomers(ContactTable[c].name) = {}
                        THEN frame.customer_name = None
                        ELSE frame.customer_name \in LinkedCustomers(ContactTable[c].name)
            /\ (digits # <<>> /\ contacts = {}) =>
                  /\ Has("Contact") /\ Has("Customer") /\ ~Has("Dynamic Link")
                  /\ IF MatchingCustomers(digits) = {}
                     THEN frame.customer_name = None
                     ELSE frame.customer_name \in MatchingCustomers(digits)

\* C8 witness: the matched contact has no customer link, a customer carries
\* the same number in its own field, and the result is none.
C8_Witness ==
    /\ pc = "done"
    /\ frame.customer_phone = NoLinkDigits
    /\ MatchingContacts(NoLinkDigits) # {}
    /\ "CUST-B" \in MatchingCustomers(NoLinkDigits)
    /\ frame.customer_name = None
    /\ response = Failed404

\* C9: a delivery commits at most once; the commit is the last call, made
\* after the customer lookup, the transcript fetch and the insert in that
\* order; it is made exactly on the deliveries answered
\* ("Call logged successfully", 200).
C9_SingleFinalCommit ==
    /\ Count("commit") <= 1
    /\ Has("commit") =>
          /\ trace[Len(trace)] = "commit"
          /\ Has("find_customer_by_phone") /\ Has("get_transcript") /\ Has("insert")
          /\ Pos("find_customer_by_phone") < Pos("get_transcript")
          /\ Pos("get_transcript") < Pos("insert")
          /\ Pos("insert") < Pos("commit")
          /\ response = Logged200
    /\ (Returned /\ response # Logged200) => ~Has("commit")
    /\ response = Logged200 => Has("commit") /\ Returned

\* C9 witness: a delivery answered 200 after its one commit.
C9_Witness ==
    /\ pc = "done"
    /\ response = Logged200
    /\ Count("commit") = 1
    /\ delivered = 2

\* C10: the number of committed communication records equals the number of
\* deliveries answered ("Call logged successfully", 200).
C10_RecordsEqualSuccesses == Len(communications) = logged

====
